---- MODULE Spec2Model ----
(***************************************************************************)
(* Model of firewood's shale object layer (firewood/src/shale/mod.rs):     *)
(* the object handle Obj (dirty tracking, flush on drop), the cache-aware  *)
(* reference ObjRef (release protocol) and the object cache ObjCache (LRU  *)
(* map, pinned flag table, dirty set, barrier flush).                      *)
(***************************************************************************)
EXTENDS Integers, Sequences, FiniteSets, TLC

\* ---- bounds of the model ----
NumAddrs == 2      \* number of disk addresses
MaxCapacity == 1   \* largest capacity a cache is created with (ObjCache::new)
MaxRefs == 2       \* call contexts that can hold a reference at once
LenLimit == 2      \* len_limit of every StoredView
MaxOps == 9        \* operations in one run

\* ---- state ----
VARIABLES
    capacity, \* the capacity ObjCache::new was called with
    cached,   \* ObjCacheInner.cached
    pinned,   \* ObjCacheInner.pinned: address -> discard flag
    dirty,    \* ObjCacheInner.dirty
    mem,      \* the linear store: bytes at each address
    refs,     \* the call contexts: free, after a get miss, or holding a handle
    op,       \* the last operation: its name, reference, address and outcome
    budget,   \* the number of operations the run may still perform
    rejects   \* whether the backing medium rejects writes (LinearStore::write returns Err)

vars == <<capacity, cached, pinned, dirty, mem, refs, op, budget, rejects>>

Addrs == 1..NumAddrs
Slots == 1..MaxRefs
ItemBytes == {1}

\* Option<T>
None == <<>>
Some(x) == <<x>>

\* values a record can take: byte strings of length 0..LenLimit; the ones of
\* length LenLimit serialize to LenLimit + 1 bytes and are over the ceiling
Items == UNION {[1..n -> ItemBytes] : n \in 0..LenLimit}

Zeros(n) == [i \in 1..n |-> 0]

\* ---- Storable (length-prefixed byte string) ----
serialized_len(item) == Len(item) + 1

\* serialize(item, to): fills the caller's buffer `to`; Err when it is too short
serialize(item, to) ==
    IF serialized_len(item) > Len(to)
    THEN [ok |-> FALSE, buf |-> to]
    ELSE [ok |-> TRUE,
          buf |-> <<Len(item)>> \o item \o SubSeq(to, serialized_len(item) + 1, Len(to))]

\* deserialize(addr, mem): decodes the record stored at addr
deserialize(addr, m) == SubSeq(m[addr], 2, 1 + m[addr][1])

\* the first n bytes stored at addr
StoreBytes(m, addr, n) == SubSeq(m[addr], 1, n)

\* ---- LinearStore::write: in-place write of `change` at `offset` ----
LinearStore_write(m, offset, change) ==
    [m EXCEPT ![offset] = change \o SubSeq(m[offset], Len(change) + 1, Len(m[offset]))]

\* ---- Obj<T>: value (item at offset addr) and dirty marker ----
Obj(a, i, d) == [addr |-> a, item |-> i, dirty |-> d]
NullObj == Obj(0, <<>>, None)

\* StoredView::serialized_len
StoredView_serialized_len(item) ==
    IF serialized_len(item) > LenLimit THEN None ELSE Some(serialized_len(item))

\* Obj::from_stored_view(StoredView::new(..)) via StoredView::addr_to_obj
addr_to_obj(m, ptr) == Obj(ptr, deserialize(ptr, m), None)

\* variant of modify that computes the length before it runs the closure
modify_StaleLen(o, v) ==
    LET len == StoredView_serialized_len(v) IN
    IF len = None
    THEN [obj |-> [o EXCEPT !.item = v], ok |-> FALSE]
    ELSE [obj |-> [o EXCEPT !.item = v, !.dirty = Some(serialized_len(o.item))], ok |-> TRUE]

\* Obj::modify with a closure that sets the value to v
modify(o, v) ==
    LET len == StoredView_serialized_len(v) IN
    IF len = None
    THEN [obj |-> [o EXCEPT !.item = v], ok |-> FALSE]
    ELSE [obj |-> [o EXCEPT !.item = v, !.dirty = len], ok |-> TRUE]

\* variant of flush_dirty that writes the buffer but leaves the marker set
flush_dirty_KeepMarker(o, m) ==
    IF o.dirty = None
    THEN [obj |-> o, mem |-> m, panic |-> FALSE]
    ELSE LET new_value == serialize(o.item, Zeros(o.dirty[1])) IN
         IF new_value.ok /\ ~rejects
         THEN [obj |-> o,
               mem |-> LinearStore_write(m, o.addr, new_value.buf),
               panic |-> FALSE]
         ELSE [obj |-> o, mem |-> m, panic |-> TRUE]

\* variant of flush_dirty that takes the marker but never writes the buffer
flush_dirty_NoWrite(o, m) == [obj |-> [o EXCEPT !.dirty = None], mem |-> m, panic |-> FALSE]

\* Obj::flush_dirty: the handle afterwards, the store afterwards, and whether
\* serialize(..).unwrap() or write(..).expect(..) panicked
flush_dirty(o, m) ==
    IF o.dirty = None
    THEN [obj |-> o, mem |-> m, panic |-> FALSE]
    ELSE LET new_value == serialize(o.item, Zeros(o.dirty[1])) IN
         IF new_value.ok /\ ~rejects
         THEN [obj |-> [o EXCEPT !.dirty = None],
               mem |-> LinearStore_write(m, o.addr, new_value.buf),
               panic |-> FALSE]
         ELSE [obj |-> [o EXCEPT !.dirty = None], mem |-> m, panic |-> TRUE]

\* variant of drop that forgets the handle instead of flushing it
drop_Forget(o, m) == [obj |-> o, mem |-> m, panic |-> FALSE]

\* Drop for Obj
drop(o, m) == flush_dirty(o, m)

\* ---- lru::LruCache<DiskAddress, Obj<T>>: a sequence, least recently used first ----
LruContains(c, ptr) == \E i \in 1..Len(c) : c[i].addr = ptr
LruIndex(c, ptr) == CHOOSE i \in 1..Len(c) : c[i].addr = ptr
LruRemove(c, ptr) == SelectSeq(c, LAMBDA o : o.addr # ptr)
LruAddrs(c) == {c[i].addr : i \in 1..Len(c)}

\* variant of LruPut whose capacity test is off by one
LruPut_OffByOne(c, cap, o) ==
    IF LruContains(c, o.addr)
    THEN [cached |-> Append(LruRemove(c, o.addr), o), dropped |-> <<c[LruIndex(c, o.addr)]>>]
    ELSE IF Len(c) > cap
         THEN [cached |-> Append(Tail(c), o), dropped |-> <<Head(c)>>]
         ELSE [cached |-> Append(c, o), dropped |-> <<>>]

\* LruCache::put: the new contents and the values it dropped (the value it
\* replaced under the same key, or the least recently used entry it evicted)
LruPut(c, cap, o) ==
    IF LruContains(c, o.addr)
    THEN [cached |-> Append(LruRemove(c, o.addr), o), dropped |-> <<c[LruIndex(c, o.addr)]>>]
    ELSE IF Len(c) >= cap
         THEN [cached |-> Append(Tail(c), o), dropped |-> <<Head(c)>>]
         ELSE [cached |-> Append(c, o), dropped |-> <<>>]

\* a call context: st is "free", "missed" (ObjCache::get returned None and the
\* caller is about to build the handle and put it), "live" (holds an ObjRef) or
\* "obj" (holds a bare Obj); popped records that ObjCache::pop was called on
\* the address while this reference was live
FreeRef == [st |-> "free", obj |-> NullObj, popped |-> FALSE]
Live(r) == refs[r].st = "live"
LiveRefs == {r \in DOMAIN refs : Live(r)}
Op(name, r, ptr, ret) == [name |-> name, ref |-> r, addr |-> ptr, ret |-> ret]
\* a panic (unwrap/expect in Obj::flush_dirty) ends the run, and so does an
\* exhausted budget of operations
Running == op.ret # "panic" /\ budget > 0
FirstFree(r) == refs[r].st = "free" /\ \A q \in DOMAIN refs : q < r => refs[q].st # "free"

InitMem == [a \in Addrs |-> Zeros(LenLimit)]

\* ObjCache::new(capacity) over a store of well-formed records
Init ==
    /\ capacity \in 1..MaxCapacity
    /\ cached = <<>>
    /\ pinned = <<>>
    /\ dirty = {}
    /\ mem = InitMem
    /\ refs = [r \in Slots |-> FreeRef]
    /\ op = Op("new", 0, 0, "ok")
    /\ budget = MaxOps
    /\ rejects = FALSE

\* HashMap::insert / entry(ptr).and_modify(..).or_insert(..), HashMap::remove
PinnedInsert(p, ptr, flag) == [a \in DOMAIN p \cup {ptr} |-> IF a = ptr THEN flag ELSE p[a]]
\* variant of PinnedRemove that leaves the entry in the table
PinnedRemove_Keep(p, ptr) == p

PinnedRemove(p, ptr) == [a \in DOMAIN p \ {ptr} |-> p[a]]

\* variant of ObjCache_get that records the checkout before it looks in the LRU
ObjCache_get_PinOnMiss(r, ptr) ==
    /\ Running
    /\ budget' = budget - 1
    /\ UNCHANGED rejects
    /\ FirstFree(r)
    /\ pinned' = PinnedInsert(pinned, ptr, FALSE)
    /\ IF LruContains(cached, ptr)
       THEN /\ cached' = LruRemove(cached, ptr)
            /\ refs' = [refs EXCEPT ![r] = [st |-> "live", obj |-> cached[LruIndex(cached, ptr)],
                                            popped |-> FALSE]]
            /\ op' = Op("get", r, ptr, "hit")
       ELSE /\ UNCHANGED cached
            /\ refs' = [refs EXCEPT ![r] = [st |-> "missed", obj |-> Obj(ptr, <<>>, None),
                                            popped |-> FALSE]]
            /\ op' = Op("get", r, ptr, "miss")
    /\ UNCHANGED <<capacity, dirty, mem>>

\* ObjCache::get, then ObjRef::new on a hit
ObjCache_get(r, ptr) ==
    /\ Running
    /\ budget' = budget - 1
    /\ UNCHANGED rejects
    /\ FirstFree(r)
    /\ IF LruContains(cached, ptr)
       THEN /\ cached' = LruRemove(cached, ptr)
            /\ pinned' = PinnedInsert(pinned, ptr, FALSE)
            /\ refs' = [refs EXCEPT ![r] = [st |-> "live", obj |-> cached[LruIndex(cached, ptr)],
                                            popped |-> FALSE]]
            /\ op' = Op("get", r, ptr, "hit")
       ELSE /\ UNCHANGED <<cached, pinned>>
            /\ refs' = [refs EXCEPT ![r] = [st |-> "missed", obj |-> Obj(ptr, <<>>, None),
                                            popped |-> FALSE]]
            /\ op' = Op("get", r, ptr, "miss")
    /\ UNCHANGED <<capacity, dirty, mem>>

\* ObjCache::put of the handle the caller built from the store after a miss,
\* then ObjRef::new
ObjCache_put(r) ==
    /\ Running
    /\ budget' = budget - 1
    /\ UNCHANGED rejects
    /\ refs[r].st = "missed"
    /\ LET ptr == refs[r].obj.addr IN
       /\ pinned' = PinnedInsert(pinned, ptr, FALSE)
       /\ refs' = [refs EXCEPT ![r] = [st |-> "live", obj |-> addr_to_obj(mem, ptr),
                                       popped |-> FALSE]]
       /\ op' = Op("put", r, ptr, "ok")
    /\ UNCHANGED <<capacity, cached, dirty, mem>>

\* variant of ObjCache_pop that drops the removed handle with its marker set
ObjCache_pop_KeepMarker(ptr) ==
    /\ Running
    /\ budget' = budget - 1
    /\ UNCHANGED rejects
    /\ pinned' = IF ptr \in DOMAIN pinned THEN PinnedInsert(pinned, ptr, TRUE) ELSE pinned
    /\ cached' = LruRemove(cached, ptr)
    /\ dirty' = dirty \ {ptr}
    /\ refs' = [r \in DOMAIN refs |->
                  IF Live(r) /\ refs[r].obj.addr = ptr
                  THEN [refs[r] EXCEPT !.popped = TRUE] ELSE refs[r]]
    /\ IF LruContains(cached, ptr)
       THEN LET r == cached[LruIndex(cached, ptr)]
                d == drop(r, mem)
            IN
            /\ mem' = d.mem
            /\ op' = Op("pop", 0, ptr,
                        IF d.panic THEN "panic"
                        ELSE IF r.dirty = None THEN "removed" ELSE "removed_dirty")
       ELSE /\ mem' = mem
            /\ op' = Op("pop", 0, ptr, "ok")
    /\ UNCHANGED capacity

\* ObjCache::pop; the handle taken out of the LRU is dropped at the end of the
\* `if let`, after its marker was cleared
ObjCache_pop(ptr) ==
    /\ Running
    /\ budget' = budget - 1
    /\ UNCHANGED rejects
    /\ pinned' = IF ptr \in DOMAIN pinned THEN PinnedInsert(pinned, ptr, TRUE) ELSE pinned
    /\ cached' = LruRemove(cached, ptr)
    /\ dirty' = dirty \ {ptr}
    /\ refs' = [r \in DOMAIN refs |->
                  IF Live(r) /\ refs[r].obj.addr = ptr
                  THEN [refs[r] EXCEPT !.popped = TRUE] ELSE refs[r]]
    /\ IF LruContains(cached, ptr)
       THEN LET r == cached[LruIndex(cached, ptr)]
                d == drop([r EXCEPT !.dirty = None], mem)
            IN
            /\ mem' = d.mem
            /\ op' = Op("pop", 0, ptr,
                        IF d.panic THEN "panic"
                        ELSE IF r.dirty = None THEN "removed" ELSE "removed_dirty")
       ELSE /\ mem' = mem
            /\ op' = Op("pop", 0, ptr, "ok")
    /\ UNCHANGED capacity

\* variant of ObjRef_write that records the address as dirty before it looks
\* at the result of modify
ObjRef_write_EagerDirty(r, v) ==
    /\ Running
    /\ budget' = budget - 1
    /\ UNCHANGED rejects
    /\ Live(r)
    /\ LET m == modify(refs[r].obj, v) IN
       /\ refs' = [refs EXCEPT ![r].obj = m.obj]
       /\ dirty' = dirty \cup {refs[r].obj.addr}
       /\ op' = Op("write", r, refs[r].obj.addr, IF m.ok THEN "ok" ELSE "oversize")
    /\ UNCHANGED <<capacity, cached, pinned, mem>>

\* ObjRef::write with a closure that sets the value to v
ObjRef_write(r, v) ==
    /\ Running
    /\ budget' = budget - 1
    /\ UNCHANGED rejects
    /\ Live(r)
    /\ LET m == modify(refs[r].obj, v) IN
       /\ refs' = [refs EXCEPT ![r].obj = m.obj]
       /\ dirty' = IF m.ok THEN dirty \cup {refs[r].obj.addr} ELSE dirty
       /\ op' = Op("write", r, refs[r].obj.addr, IF m.ok THEN "ok" ELSE "oversize")
    /\ UNCHANGED <<capacity, cached, pinned, mem>>

\* Drop for ObjRef
ObjRef_drop(r) ==
    /\ Running
    /\ budget' = budget - 1
    /\ UNCHANGED rejects
    /\ Live(r)
    /\ LET ptr == refs[r].obj.addr
           flag == IF ptr \in DOMAIN pinned THEN Some(pinned[ptr]) ELSE None
       IN
       /\ pinned' = PinnedRemove(pinned, ptr)
       /\ IF flag = Some(TRUE)
          THEN \* inner.dirty = None; ManuallyDrop::drop(inner)
               LET d == drop([refs[r].obj EXCEPT !.dirty = None], mem) IN
               /\ cached' = cached
               /\ mem' = d.mem
               /\ op' = Op("release", r, ptr, IF d.panic THEN "panic" ELSE "discarded")
          ELSE \* cache.cached.put(ptr, b); the handle that put displaces is dropped
               LET p == LruPut(cached, capacity, refs[r].obj)
                   d == IF p.dropped = <<>> THEN [mem |-> mem, panic |-> FALSE]
                        ELSE drop(p.dropped[1], mem)
               IN
               /\ cached' = p.cached
               /\ mem' = d.mem
               /\ op' = Op("release", r, ptr,
                           IF d.panic THEN "panic"
                           ELSE IF p.dropped = <<>> THEN "cached"
                           ELSE IF p.dropped[1].addr = ptr THEN "replaced" ELSE "evicted")
    /\ refs' = [refs EXCEPT ![r] = FreeRef]
    /\ UNCHANGED <<capacity, dirty>>

\* Node::from_leaf(LeafNode { partial_path: Path(Vec::new()), value: Vec::new() })
EmptyLeaf == <<>>

\* Obj<Node>::into_inner: the value moved out of the handle, and the drop of
\* the handle (`self`), which is left holding the empty leaf
into_inner(o, m) ==
    LET d == drop([o EXCEPT !.item = EmptyLeaf], m) IN
    [item |-> o.item, mem |-> d.mem, panic |-> d.panic]

\* ObjRef::into_inner: takes the handle, forgets the reference (Drop for ObjRef
\* does not run) and consumes the handle
ObjRef_into_inner(r) ==
    /\ Running
    /\ budget' = budget - 1
    /\ UNCHANGED rejects
    /\ Live(r)
    /\ LET b == into_inner(refs[r].obj, mem) IN
       /\ mem' = b.mem
       /\ op' = Op("into_inner", r, refs[r].obj.addr, IF b.panic THEN "panic" ELSE "ok")
    /\ refs' = [refs EXCEPT ![r] = FreeRef]
    /\ UNCHANGED <<capacity, cached, pinned, dirty>>

\* variant of Busy that looks only for addresses marked for discard
Busy_OnlyDiscarded(p) == \E a \in DOMAIN p : p[a]

\* `!inner.pinned.is_empty()` in ObjCache::flush_dirty
Busy(p) == DOMAIN p # {}

\* the loop of ObjCache::flush_dirty over the dirty set it took
FlushTaken ==
    LET hit == {i \in 1..Len(cached) : cached[i].addr \in dirty}
        res == [i \in hit |-> flush_dirty(cached[i], mem)]
        bad == {i \in hit : res[i].panic}
    IN
    /\ dirty' = {}
    /\ IF bad = {}
       THEN /\ cached' = [i \in 1..Len(cached) |->
                            IF i \in hit THEN res[i].obj ELSE cached[i]]
            /\ mem' = [a \in DOMAIN mem |->
                         IF \E i \in hit : cached[i].addr = a
                         THEN res[LruIndex(cached, a)].mem[a] ELSE mem[a]]
            /\ op' = Op("flush_dirty", 0, 0, "ok")
       ELSE \* the loop stops at the first handle whose flush panics; the
            \* HashSet order decides which handles were flushed before it
            \E b \in bad : \E done \in SUBSET (hit \ bad) :
            /\ cached' = [i \in 1..Len(cached) |->
                            IF i \in done \cup {b} THEN res[i].obj ELSE cached[i]]
            /\ mem' = [a \in DOMAIN mem |->
                         IF \E i \in done : cached[i].addr = a
                         THEN res[LruIndex(cached, a)].mem[a] ELSE mem[a]]
            /\ op' = Op("flush_dirty", 0, 0, "panic")

\* variant of ObjCache_flush_dirty that takes the dirty set before it looks at
\* the pinned table
ObjCache_flush_dirty_TakeFirst ==
    /\ Running
    /\ budget' = budget - 1
    /\ UNCHANGED rejects
    /\ IF Busy(pinned)
       THEN /\ op' = Op("flush_dirty", 0, 0, "busy")
            /\ dirty' = {}
            /\ UNCHANGED <<cached, mem>>
       ELSE FlushTaken
    /\ UNCHANGED <<capacity, pinned, refs>>

\* ObjCache::flush_dirty
ObjCache_flush_dirty ==
    /\ Running
    /\ budget' = budget - 1
    /\ UNCHANGED rejects
    /\ IF Busy(pinned)
       THEN /\ op' = Op("flush_dirty", 0, 0, "busy")
            /\ UNCHANGED <<cached, dirty, mem>>
       ELSE FlushTaken
    /\ UNCHANGED <<capacity, pinned, refs>>

Next ==
    \/ \E r \in DOMAIN refs, ptr \in DOMAIN mem : ObjCache_get(r, ptr)
    \/ \E r \in DOMAIN refs : ObjCache_put(r)
    \/ \E ptr \in DOMAIN mem : ObjCache_pop(ptr)
    \/ \E r \in DOMAIN refs, v \in Items : ObjRef_write(r, v)
    \/ \E r \in DOMAIN refs : ObjRef_drop(r)
    \/ \E r \in DOMAIN refs : ObjRef_into_inner(r)
    \/ ObjCache_flush_dirty

Spec == Init /\ [][Next]_vars

\* ---- the cache over a medium that can start to reject writes ----
StoreFault ==
    /\ Running
    /\ budget' = budget - 1
    /\ ~rejects
    /\ rejects' = TRUE
    /\ op' = Op("fault", 0, 0, "ok")
    /\ UNCHANGED <<capacity, cached, pinned, dirty, mem, refs>>

NextFault ==
    \/ Next
    \/ StoreFault

SpecFault == Init /\ [][NextFault]_vars

\* ---- one caller driving the cache through a fixed sequence of calls ----
\* three references are taken one after the other and held; the second is
\* written and released, then the third, then the first, with a barrier
\* call after each release
ScenarioAddrs == 1..(NumAddrs + 1)
ScenarioSlots == 1..(MaxRefs + 1)
ScenarioCapacity == MaxCapacity + 1

\* the value the caller's closure writes: the longest one under the ceiling
ScenarioValue == [i \in 1..(LenLimit - 1) |-> CHOOSE b \in ItemBytes : TRUE]

\* the calls in order; `claimed` is the barrier result the scenario states,
\* `expect` the one ObjCache::flush_dirty gives
Script ==
    << [name |-> "get", slot |-> 1, claimed |-> "", expect |-> ""],
       [name |-> "put", slot |-> 1, claimed |-> "", expect |-> ""],
       [name |-> "get", slot |-> 2, claimed |-> "", expect |-> ""],
       [name |-> "put", slot |-> 2, claimed |-> "", expect |-> ""],
       [name |-> "get", slot |-> 3, claimed |-> "", expect |-> ""],
       [name |-> "put", slot |-> 3, claimed |-> "", expect |-> ""],
       [name |-> "write", slot |-> 2, claimed |-> "", expect |-> ""],
       [name |-> "release", slot |-> 2, claimed |-> "", expect |-> ""],
       [name |-> "flush_dirty", slot |-> 0, claimed |-> "busy", expect |-> "busy"],
       [name |-> "release", slot |-> 3, claimed |-> "", expect |-> ""],
       [name |-> "flush_dirty", slot |-> 0, claimed |-> "ok", expect |-> "busy"],
       [name |-> "release", slot |-> 1, claimed |-> "", expect |-> ""],
       [name |-> "flush_dirty", slot |-> 0, claimed |-> "", expect |-> "ok"] >>

ScenarioDone == Len(Script) - budget
ScenarioStep == Script[ScenarioDone + 1]

\* ObjCache::new(capacity) over a store of well-formed records
InitScenario ==
    /\ capacity = ScenarioCapacity
    /\ cached = <<>>
    /\ pinned = <<>>
    /\ dirty = {}
    /\ mem \in [ScenarioAddrs -> {serialize(i, Zeros(LenLimit)).buf :
                                   i \in {j \in Items : serialized_len(j) <= LenLimit}}]
    /\ refs = [r \in ScenarioSlots |-> FreeRef]
    /\ op = Op("new", 0, 0, "ok")
    /\ budget = Len(Script)
    /\ rejects = FALSE

Scenario_get ==
    /\ budget > 0
    /\ ScenarioStep.name = "get"
    /\ \E ptr \in ScenarioAddrs \ {refs[r].obj.addr : r \in LiveRefs} :
         ObjCache_get(ScenarioStep.slot, ptr)

Scenario_put ==
    /\ budget > 0
    /\ ScenarioStep.name = "put"
    /\ ObjCache_put(ScenarioStep.slot)

Scenario_write ==
    /\ budget > 0
    /\ ScenarioStep.name = "write"
    /\ ObjRef_write(ScenarioStep.slot, ScenarioValue)

Scenario_release ==
    /\ budget > 0
    /\ ScenarioStep.name = "release"
    /\ ObjRef_drop(ScenarioStep.slot)

Scenario_flush_dirty ==
    /\ budget > 0
    /\ ScenarioStep.name = "flush_dirty"
    /\ ObjCache_flush_dirty

NextScenario ==
    \/ Scenario_get
    \/ Scenario_put
    \/ Scenario_write
    \/ Scenario_release
    \/ Scenario_flush_dirty

SpecScenario == InitScenario /\ [][NextScenario]_vars

\* ---- bare handles: Obj used directly on the store, without a cache ----
Held(r) == refs[r].st = "obj"

InitObj ==
    /\ capacity = 1
    /\ cached = <<>>
    /\ pinned = <<>>
    /\ dirty = {}
    /\ mem = InitMem
    /\ refs = [r \in Slots |-> FreeRef]
    /\ op = Op("new", 0, 0, "ok")
    /\ budget = MaxOps
    /\ rejects = FALSE

\* StoredView::addr_to_obj
Obj_addr_to_obj(r, ptr) ==
    /\ Running
    /\ budget' = budget - 1
    /\ UNCHANGED rejects
    /\ FirstFree(r)
    /\ refs' = [refs EXCEPT ![r] = [st |-> "obj", obj |-> addr_to_obj(mem, ptr), popped |-> FALSE]]
    /\ op' = Op("addr_to_obj", r, ptr, "ok")
    /\ UNCHANGED <<capacity, cached, pinned, dirty, mem>>

\* Obj::modify with a closure that sets the value to v
Obj_modify(r, v) ==
    /\ Running
    /\ budget' = budget - 1
    /\ UNCHANGED rejects
    /\ Held(r)
    /\ LET m == modify(refs[r].obj, v) IN
       /\ refs' = [refs EXCEPT ![r].obj = m.obj]
       /\ op' = Op("modify", r, refs[r].obj.addr, IF m.ok THEN "ok" ELSE "oversize")
    /\ UNCHANGED <<capacity, cached, pinned, dirty, mem>>

\* Obj::flush_dirty
Obj_flush_dirty(r) ==
    /\ Running
    /\ budget' = budget - 1
    /\ UNCHANGED rejects
    /\ Held(r)
    /\ LET f == flush_dirty(refs[r].obj, mem) IN
       /\ refs' = [refs EXCEPT ![r].obj = f.obj]
       /\ mem' = f.mem
       /\ op' = Op("flush_dirty", r, refs[r].obj.addr,
                   IF f.panic THEN "panic" ELSE IF refs[r].obj.dirty = None THEN "clean" ELSE "wrote")
    /\ UNCHANGED <<capacity, cached, pinned, dirty>>

\* Drop for Obj
Obj_drop(r) ==
    /\ Running
    /\ budget' = budget - 1
    /\ UNCHANGED rejects
    /\ Held(r)
    /\ LET f == drop(refs[r].obj, mem) IN
       /\ refs' = [refs EXCEPT ![r] = FreeRef]
       /\ mem' = f.mem
       /\ op' = Op("drop", r, refs[r].obj.addr,
                   IF f.panic THEN "panic" ELSE IF refs[r].obj.dirty = None THEN "clean" ELSE "wrote")
    /\ UNCHANGED <<capacity, cached, pinned, dirty>>

NextObj ==
    \/ \E r \in DOMAIN refs, ptr \in DOMAIN mem : Obj_addr_to_obj(r, ptr)
    \/ \E r \in DOMAIN refs, v \in Items : Obj_modify(r, v)
    \/ \E r \in DOMAIN refs : Obj_flush_dirty(r)
    \/ \E r \in DOMAIN refs : Obj_drop(r)

SpecObj == InitObj /\ [][NextObj]_vars

\* ---- properties ----
Resident(a) == a \in LruAddrs(cached)
CheckedOut(a) == \E r \in LiveRefs : refs[r].obj.addr = a
Serialization(item) == serialize(item, Zeros(serialized_len(item))).buf
OnDisk(m, o) == StoreBytes(m, o.addr, serialized_len(o.item)) = Serialization(o.item)

\* C1: at-most-one-checkout: no two live references hold the same address at
\* the same time.
C1_AtMostOneCheckout ==
    \A r1, r2 \in LiveRefs : refs[r1].obj.addr = refs[r2].obj.addr => r1 = r2

\* C2: discard dominance: the release of a reference whose address was popped
\* while it was checked out writes no bytes to the store and does not insert
\* the address into the LRU.
C2_DiscardDominance ==
    [][\A r \in DOMAIN refs :
         (Live(r) /\ refs[r].popped /\ op'.name = "release" /\ op'.ref = r)
         => (mem' = mem /\ cached' = cached)]_vars

\* C3: barrier result: a flush_dirty that returns, returns busy exactly when the
\* pinned table is non-empty, and when it returns success the dirty set is empty.
C3_BarrierResult ==
    [][(op'.name = "flush_dirty" /\ op'.ret # "panic")
       => /\ DOMAIN pinned # {} => op'.ret = "busy"
          /\ DOMAIN pinned = {} => (op'.ret = "ok" /\ dirty' = {})]_vars

C3_Witness ==
    /\ op.name = "flush_dirty" /\ op.ret = "ok"
    /\ dirty = {}
    /\ \E i \in 1..Len(cached) : cached[i].item # <<>> /\ OnDisk(mem, cached[i])

\* C4: barrier postcondition: after flush_dirty returns success, every handle
\* that was resident and dirty before the call has its serialization in the
\* store and is no longer dirty.
C4_BarrierPostcondition ==
    [][(op'.name = "flush_dirty" /\ op'.ret = "ok")
       => \A i \in 1..Len(cached) :
            cached[i].dirty # None
            => (OnDisk(mem', cached[i]) /\ cached'[i].dirty = None)]_vars

\* C5: barrier exclusion: flush_dirty never returns success while a reference
\* obtained from the cache is still live.
C5_BarrierExclusion ==
    (op.name = "flush_dirty" /\ op.ret = "ok") => LiveRefs = {}

\* C6: capacity bound: the number of resident entries is at most the capacity
\* the cache was created with.
C6_CapacityBound == Len(cached) <= capacity

C6_Witness ==
    /\ op.name = "release" /\ op.ret = "evicted"
    /\ Len(cached) = capacity

\* C7: write-through: when modify returned success on a bare handle and the
\* handle is then flushed or dropped, the store bytes at its offset are the
\* serialization of the mutated value.
C7_WriteThrough ==
    [][(op.name = "modify" /\ op.ret = "ok"
        /\ op'.name \in {"flush_dirty", "drop"} /\ op'.ref = op.ref)
       => OnDisk(mem', refs[op.ref].obj)]_vars

C7_Witness ==
    /\ op.name \in {"flush_dirty", "drop"} /\ op.ret = "wrote"
    /\ deserialize(op.addr, mem) # <<>>

\* C8: oversize rejection: after a modify that fails with the oversize error
\* the handle's dirty marker is unset, whatever it was before.
C8_OversizeRejection ==
    (op.name = "modify" /\ op.ret = "oversize") => refs[op.ref].obj.dirty = None

\* C9: state exclusivity: no address is both resident in the LRU and present
\* in the pinned flag table.
C9_StateExclusivity == \A a \in DOMAIN pinned : ~Resident(a)

\* C10: dirty-set containment: every address in the dirty set is resident in
\* the LRU or checked out.
C10_DirtySetContainment == \A a \in dirty : Resident(a) \/ CheckedOut(a)

\* C10 (amended): an address enters the dirty set only by a successful write
\* through a live reference to it, and leaves it only by pop of that address
\* or by a flush_dirty that is not busy.
C10_DirtySetLifecycle ==
    [][\A a \in DOMAIN mem :
         /\ (a \in dirty' /\ a \notin dirty)
            => (op' = Op("write", op'.ref, a, "ok") /\ Live(op'.ref)
                /\ refs[op'.ref].obj.addr = a)
         /\ (a \in dirty /\ a \notin dirty')
            => ((op'.name = "pop" /\ op'.addr = a)
                \/ (op'.name = "flush_dirty" /\ op'.ret # "busy"))]_vars

C10_Witness ==
    /\ op.name = "release" /\ op.ret \in {"evicted", "discarded"}
    /\ \E a \in dirty : ~Resident(a) /\ ~CheckedOut(a)

\* C11: flush failure: when the medium rejects the write of a cache
\* flush_dirty, the call ends with an error outcome and the affected records
\* keep their dirty markers and their dirty-set entries.
C11_FlushFailureReported ==
    [][(/\ rejects
        /\ op'.name = "flush_dirty"
        /\ DOMAIN pinned = {}
        /\ \E i \in 1..Len(cached) :
             /\ cached[i].addr \in dirty
             /\ cached[i].dirty # None
             /\ serialize(cached[i].item, Zeros(cached[i].dirty[1])).ok)
       => (/\ op'.ret = "error"
           /\ dirty' = dirty
           /\ \A i \in 1..Len(cached) : cached'[i].dirty = cached[i].dirty)]_vars

\* C12: busy is side-effect free: a flush_dirty that returns busy leaves the
\* LRU, the pinned table, the dirty set, every handle and the store unchanged.
C12_BusyNoEffect ==
    [][(op'.name = "flush_dirty" /\ op'.ret = "busy")
       => UNCHANGED <<cached, pinned, dirty, mem, refs>>]_vars

C12_Witness ==
    /\ op.name = "flush_dirty" /\ op.ret = "busy"
    /\ \E i \in 1..Len(cached) : cached[i].addr \in dirty /\ cached[i].dirty # None

\* C13: invalidation dominates checkout marking: a discard flag that pop set to
\* true is not reset to false while it stays in the pinned table.
C13_InvalidationDominates ==
    [][\A a \in DOMAIN pinned :
         (pinned[a] /\ a \in DOMAIN pinned') => pinned'[a]]_vars

\* C14: pop writes nothing to the store, even when it removes a dirty resident
\* handle, and leaves the address out of the LRU and out of the dirty set.
C14_PopInvalidates ==
    [][op'.name = "pop"
       => (/\ mem' = mem
           /\ op'.addr \notin LruAddrs(cached')
           /\ op'.addr \notin dirty')]_vars

C14_Witness ==
    /\ op.name = "pop" /\ op.ret = "removed_dirty"
    /\ ~Resident(op.addr)
    /\ op.addr \notin dirty

C16_FlushExactlyOnce ==
    [][(op'.name \in {"flush_dirty", "drop"} /\ op'.ret # "panic")
       => LET o == refs[op'.ref].obj IN
          /\ IF o.dirty = None
             THEN mem' = mem
             ELSE /\ \A a \in DOMAIN mem \ {o.addr} : mem'[a] = mem[a]
                  /\ StoreBytes(mem', o.addr, o.dirty[1])
                       = serialize(o.item, Zeros(o.dirty[1])).buf
                  /\ SubSeq(mem'[o.addr], o.dirty[1] + 1, Len(mem[o.addr]))
                       = SubSeq(mem[o.addr], o.dirty[1] + 1, Len(mem[o.addr]))
          /\ op'.name = "flush_dirty" => refs'[op'.ref].obj.dirty = None
          /\ (op.name = "flush_dirty" /\ op.ref = op'.ref) => mem' = mem]_vars

C16_Witness ==
    /\ op.name = "flush_dirty" /\ op.ret = "clean"
    /\ op.ref \in DOMAIN refs
    /\ refs[op.ref].obj.item # <<>>
    /\ serialized_len(refs[op.ref].obj.item) <= LenLimit
    /\ OnDisk(mem, refs[op.ref].obj)

\* C17: writing through a reference: a write succeeds exactly when the new
\* value fits the ceiling; then the marker holds the new serialized length and
\* the address is in the dirty set; when it fails the dirty set is unchanged.
C17_WriteMarksDirty ==
    [][op'.name = "write"
       => LET o == refs'[op'.ref].obj IN
          /\ op'.ret = "ok" <=> serialized_len(o.item) <= LenLimit
          /\ op'.ret = "ok"
             => (o.dirty = Some(serialized_len(o.item)) /\ o.addr \in dirty')
          /\ op'.ret = "oversize" => dirty' = dirty]_vars

C17_Witness ==
    /\ op.name = "write" /\ op.ret = "ok"
    /\ refs[op.ref].obj.dirty = Some(LenLimit)
    /\ op.addr \in dirty

\* C18: cache miss is a pure query: get on an address that is not resident
\* returns miss and leaves the LRU, the pinned table, the dirty set and the
\* store unchanged; the caller holds no reference until its put, which
\* records the address in the pinned table.
C18_MissIsPure ==
    [][/\ (op'.name = "get" /\ ~LruContains(cached, op'.addr))
          => (/\ op'.ret = "miss"
              /\ UNCHANGED <<cached, pinned, dirty, mem>>
              /\ refs'[op'.ref].st = "missed")
       /\ \A r \in DOMAIN refs :
            (refs[r].st = "missed" /\ refs'[r].st = "live")
            => (op'.name = "put" /\ op'.ref = r /\ op'.addr \in DOMAIN pinned')]_vars

C18_Witness ==
    /\ op.name = "get" /\ op.ret = "miss"
    /\ refs[op.ref].st = "missed"
    /\ op.addr \notin DOMAIN pinned

\* C19 as stated: in the scenario (capacity 2; A, B and C checked out in
\* sequence, B written and released) the barrier called while C is still
\* checked out returns busy, and the barrier called after C is released
\* returns success with B's bytes in the store equal to the serialization of
\* the mutated B.
C19_ScenarioAsStated ==
    [][(op'.name = "flush_dirty" /\ ScenarioStep.claimed # "")
       => (/\ op'.ret = ScenarioStep.claimed
           /\ op'.ret = "ok"
              => (/\ dirty # {}
                  /\ \A b \in dirty :
                       StoreBytes(mem', b, serialized_len(ScenarioValue))
                         = Serialization(ScenarioValue)))]_vars

\* C19 amended: the barrier called while C is still checked out returns busy;
\* the barrier called after C is released still returns busy, because A is
\* still checked out; once A is released too the barrier returns success and
\* B's bytes in the store equal the serialization of the mutated B.
C19_ScenarioAllReleased ==
    [][op'.name = "flush_dirty"
       => (/\ op'.ret = ScenarioStep.expect
           /\ op'.ret = "busy" => (mem' = mem /\ dirty' = dirty)
           /\ op'.ret = "ok"
              => (/\ dirty # {}
                  /\ \A b \in dirty :
                       StoreBytes(mem', b, serialized_len(ScenarioValue))
                         = Serialization(ScenarioValue)))]_vars

C19_Witness ==
    /\ ScenarioDone = Len(Script)
    /\ op.name = "flush_dirty" /\ op.ret = "ok"
    /\ LiveRefs = {} /\ DOMAIN pinned = {} /\ dirty = {}
    /\ \E b \in DOMAIN mem :
         StoreBytes(mem, b, serialized_len(ScenarioValue)) = Serialization(ScenarioValue)

\* C20: busy is never permanent: whenever every reference handed out by the
\* cache has ended, by release or by into_inner, the checked-out flag table is
\* empty (so that the next barrier call is not refused).
C20_BusyNeverPermanent ==
    (\A r \in DOMAIN refs : refs[r].st \in {"free", "missed"}) => DOMAIN pinned = {}

\* C21: into_inner never writes a placeholder: when a reference whose handle
\* is dirty is consumed with into_inner, the bytes the consumed handle writes
\* at its address are the serialization of the value the caller last set (the
\* value returned), not of the empty value left in the handle.
C21_NoPlaceholderWrite ==
    [][(/\ op'.name = "into_inner" /\ op'.ret # "panic"
        /\ refs[op'.ref].obj.dirty # None)
       => LET o == refs[op'.ref].obj
              written == serialize(o.item, Zeros(o.dirty[1]))
          IN /\ written.ok
             /\ StoreBytes(mem', o.addr, o.dirty[1]) = written.buf]_vars
====
